---- MODULE Spec2Model ----
(***************************************************************************)
(* A model of the crawl engine of the site audit tool (src/engine.py):     *)
(* AuditEngine.__init__, _normalize_url, _is_valid_url, _extract_links,    *)
(* _fetch_page and the loop of AuditEngine.run.                            *)
(*                                                                         *)
(* Strings the code inspects character by character (hosts, paths) are     *)
(* sequences of one-character strings.  A URL string is held as its five   *)
(* pieces (scheme, netloc, path, query, fragment), the path with its       *)
(* ";params" still in it; urlparse splits the params off and urlunparse    *)
(* puts them back.  The query is the sequence of its "&"-separated         *)
(* parameters.                                                             *)
(*                                                                         *)
(* The pure functions of the engine and of src/core/design_auditor.py are  *)
(* also exercised on their own, on drawn inputs: UrlSpec, LinkSpec and     *)
(* ClassifySpec.                                                           *)
(***************************************************************************)
EXTENDS Integers, Sequences, FiniteSets, TLC

\* ------------------------------------------------------------------ bounds

\* max_pages of the engine is drawn from 0..MaxPagesBound
MaxPagesBound == 3
\* a fetched page holds at most MaxLinks anchors
MaxLinks == 2
\* a callback returns a list of at most MaxFindings findings
MaxFindings == 2
\* run() is called at most MaxRuns times on one engine
MaxRuns == 2
\* _normalize_url is applied at most MaxApplications times in a row
MaxApplications == 2
\* a page given to _extract_links on its own holds at most MaxAnchors anchors
MaxAnchors == 3

\* The most pages main's crawl audits
MaxAuditedPages == 2

\* The most <link rel="stylesheet"> elements of a page
MaxSheetLinks == 2

\* ------------------------------------------------------- strings and URLs

SeqsUpTo(S, n) == UNION {[1..k -> S] : k \in 0..n}

\* str.lower() on the letters the model uses
LowerChar(c) ==
    CASE c = "E" -> "e"
      [] c = "X" -> "x"
      [] c = "J" -> "j"
      [] c = "S" -> "s"
      [] c = "A" -> "a"
      [] c = "B" -> "b"
      [] c = "C" -> "c"
      [] c = "D" -> "d"
      [] c = "F" -> "f"
      [] OTHER -> c

Lower(s) == [i \in 1..Len(s) |-> LowerChar(s[i])]

\* str.endswith(suffix)
EndsWith(s, suffix) ==
    /\ Len(suffix) <= Len(s)
    /\ SubSeq(s, Len(s) - Len(suffix) + 1, Len(s)) = suffix

\* str.rstrip("/")
RECURSIVE RStripSlash(_)
RStripSlash(s) ==
    IF s # <<>> /\ s[Len(s)] = "/"
    THEN RStripSlash(SubSeq(s, 1, Len(s) - 1))
    ELSE s

\* re.search(pattern, url) for a pattern that is a literal piece of a path,
\* such as "/admin": the pattern occurs in s
Contains(s, pattern) ==
    \E i \in 1..(Len(s) - Len(pattern) + 1) :
        SubSeq(s, i, i + Len(pattern) - 1) = pattern

\* re.search raises re.error on a pattern that does not compile, such as
\* "(": a group is opened and not closed
PatternRaises(pattern) ==
    /\ \E i \in 1..Len(pattern) : pattern[i] = "("
    /\ \A i \in 1..Len(pattern) : pattern[i] # ")"

\* A URL string
MkUrl(scheme, netloc, path, query, fragment) ==
    [scheme |-> scheme, netloc |-> netloc, path |-> path, query |-> query,
     fragment |-> fragment]

\* str.rfind(c) and str.find(c, start), 1-based; 0 when there is none
RFind(s, c) ==
    IF \E i \in 1..Len(s) : s[i] = c
    THEN CHOOSE i \in 1..Len(s) :
            s[i] = c /\ \A j \in (i + 1)..Len(s) : s[j] # c
    ELSE 0

Find(s, c, start) ==
    IF \E i \in start..Len(s) : s[i] = c
    THEN CHOOSE i \in start..Len(s) :
            s[i] = c /\ \A j \in start..(i - 1) : s[j] # c
    ELSE 0

\* urllib's _splitparams: the params start at the first ";" of the last
\* segment of the path
_splitparams(s) ==
    LET slash == RFind(s, "/")
        i == Find(s, ";", IF slash = 0 THEN 1 ELSE slash)
    IN  IF i = 0
        THEN [path |-> s, params |-> <<>>]
        ELSE [path |-> SubSeq(s, 1, i - 1),
              params |-> SubSeq(s, i + 1, Len(s))]

\* urlparse raises ValueError("Invalid IPv6 URL") on a netloc with one
\* square bracket and not the other
UrlParseRaises(url) ==
    LET Has(c) == \E i \in 1..Len(url.netloc) : url.netloc[i] = c
    IN  Has("[") # Has("]")

\* urlparse(url) of a URL it accepts
urlparse(url) ==
    [scheme |-> url.scheme, netloc |-> url.netloc,
     path |-> _splitparams(url.path).path,
     params |-> _splitparams(url.path).params,
     query |-> url.query, fragment |-> url.fragment]

\* urlunparse((scheme, netloc, path, params, query, fragment))
urlunparse(scheme, netloc, path, params, query, fragment) ==
    MkUrl(scheme, netloc,
          IF params # <<>> THEN path \o <<";">> \o params ELSE path,
          query, fragment)

\* A query parameter "key=val" (eq) or "key" (no "=" in it)
Param(key, eq, val) == [key |-> key, eq |-> eq, val |-> val]

tracking_params ==
    {"utm_source", "utm_medium", "utm_campaign", "utm_content", "utm_term",
     "fbclid", "gclid"}

\* A parameter is dropped for its key alone, with or without "="
IsTrackingParamBare(p) == p.key \in tracking_params

\* any(p.startswith(tp + "=") for tp in tracking_params)
IsTrackingParam(p) == p.eq /\ p.key \in tracking_params

KeepParam(p) == ~IsTrackingParam(p)

\* _normalize_url of a URL urlparse accepts
_normalize_url(url) ==
    LET parsed == urlparse(url)
        netloc == Lower(parsed.netloc)
        stripped == IF parsed.path # <<"/">> /\ EndsWith(parsed.path, <<"/">>)
                    THEN RStripSlash(parsed.path)
                    ELSE parsed.path
        path == IF stripped = <<>> THEN <<"/">> ELSE stripped
        query == IF parsed.query # <<>>
                 THEN SelectSeq(parsed.query, KeepParam)
                 ELSE parsed.query
    IN  urlunparse(parsed.scheme, netloc, path, parsed.params, query, "")

\* ------------------------------------------------------ the site's names

Host == <<"e", "x", ".", "c", "o", "m">>
HostUpper == <<"E", "X", ".", "c", "o", "m">>
SubHost == <<"s", ".", "e", "x", ".", "c", "o", "m">>

\* The URL the engine is constructed with
SeedUrl == MkUrl("https", HostUpper, <<>>, <<>>, "")

\* AuditEngine.__init__: the fields derived from the arguments
base_url == _normalize_url(SeedUrl)
allowed_domain == base_url.netloc
excluded_patterns == << <<"/", "a", "d", "m", "i", "n">> >>

skip_extensions ==
    {<<".", "p", "d", "f">>, <<".", "j", "p", "g">>,
     <<".", "j", "p", "e", "g">>, <<".", "p", "n", "g">>,
     <<".", "g", "i", "f">>, <<".", "s", "v", "g">>,
     <<".", "w", "e", "b", "p">>, <<".", "a", "v", "i", "f">>,
     <<".", "m", "p", "4">>, <<".", "m", "p", "3">>,
     <<".", "w", "a", "v">>, <<".", "z", "i", "p">>,
     <<".", "r", "a", "r">>, <<".", "e", "x", "e">>,
     <<".", "d", "m", "g">>, <<".", "c", "s", "s">>,
     <<".", "j", "s">>, <<".", "j", "s", "o", "n">>,
     <<".", "x", "m", "l">>, <<".", "t", "x", "t">>,
     <<".", "i", "c", "o">>}

\* The host test lets a subdomain of the allowed host pass
NetlocAllowedSuffix(netloc, allowed) == EndsWith(Lower(netloc), allowed)

\* parsed.netloc.lower() != self.allowed_domain
NetlocAllowed(netloc, allowed) == Lower(netloc) = allowed

\* for pattern in self.excluded_patterns: if re.search(pattern, url).
\* "match" when a pattern matches, "raise" when one does not compile and
\* none before it matched, else "none"
RECURSIVE SearchPatterns(_, _)
SearchPatterns(patterns, url) ==
    IF patterns = <<>> THEN "none"
    ELSE IF PatternRaises(Head(patterns)) THEN "raise"
    ELSE IF Contains(url.path, Head(patterns)) THEN "match"
    ELSE SearchPatterns(Tail(patterns), url)

\* The try block of _is_valid_url on an engine with the given
\* allowed_domain and excluded_patterns: "True", "False", or "raise" when a
\* call in it raises
IsValidUrlTry(url, allowed, patterns) ==
    IF UrlParseRaises(url) THEN "raise"
    ELSE IF urlparse(url).scheme \notin {"http", "https"} THEN "False"
    ELSE IF ~NetlocAllowed(urlparse(url).netloc, allowed) THEN "False"
    ELSE IF SearchPatterns(patterns, url) = "raise" THEN "raise"
    ELSE IF SearchPatterns(patterns, url) = "match" THEN "False"
    ELSE IF \E ext \in skip_extensions :
                EndsWith(Lower(urlparse(url).path), ext)
    THEN "False"
    ELSE "True"

\* There is no except clause: the exception leaves _is_valid_url
ExceptPropagates(tried) == IF tried = "raise" THEN "raised" ELSE tried

\* except Exception: return False
ExceptReturnsFalse(tried) == IF tried = "raise" THEN "False" ELSE tried

\* Every URL is taken for valid
IsValidUrlAlways(url, allowed, patterns) == "True"

\* _is_valid_url on an engine with the given fields: "True" or "False"
IsValidUrl(url, allowed, patterns) ==
    ExceptReturnsFalse(IsValidUrlTry(url, allowed, patterns))

\* self._is_valid_url(url) on the crawling engine
_is_valid_url(url) ==
    IsValidUrl(url, allowed_domain, excluded_patterns) = "True"

\* ------------------------------------------------------- pages and links

\* An anchor's href, as the reference it spells: "" is the empty href,
\* scheme "javascript"/"mailto"/"tel" an href starting with that scheme, a
\* reference with only a fragment an href starting with "#".
Href(scheme, netloc, path, query, fragment) ==
    [scheme |-> scheme, netloc |-> netloc, path |-> path, query |-> query,
     fragment |-> fragment]

HrefEmpty == Href("", <<>>, <<>>, <<>>, "")
HrefMailto == Href("mailto", <<>>, <<"x">>, <<>>, "")
HrefFragment == Href("", <<>>, <<>>, <<>>, "section")
HrefA == Href("", <<>>, <<"/", "a">>, <<>>, "")
HrefAUpper == Href("https", HostUpper, <<"/", "a", "/">>, <<>>, "frag")
HrefB == Href("", <<>>, <<"/", "b">>, <<Param("utm_source", TRUE, "x")>>, "")
HrefHome == Href("", <<>>, <<"/">>, <<>>, "")
HrefSub == Href("https", SubHost, <<"/">>, <<>>, "")
HrefScript == Href("", <<>>, <<"/", "f", ".", "J", "S">>, <<>>, "")

Hrefs ==
    {HrefEmpty, HrefMailto, HrefFragment, HrefA, HrefAUpper, HrefB, HrefHome,
     HrefSub, HrefScript}

\* The <a href> values BeautifulSoup finds in a page's HTML, in document
\* order.  The text of a page is read by the callback and by _extract_links
\* only, so the model draws a page's anchors when _extract_links parses it.
AnchorLists == SeqsUpTo(Hrefs, MaxLinks)

\* An href that starts with "#" is not skipped
SkippedHrefButFragment(href) ==
    \/ href = HrefEmpty
    \/ href.scheme \in {"javascript", "mailto", "tel"}

\* not href or href.startswith(("javascript:", "mailto:", "tel:", "#"))
SkippedHref(href) ==
    \/ href = HrefEmpty
    \/ href.scheme \in {"javascript", "mailto", "tel"}
    \/ /\ href.scheme = "" /\ href.netloc = <<>>
       /\ href.path = <<>> /\ href.query = <<>>

\* urljoin(current_url, href) for an absolute URL, a network-path
\* reference and an absolute-path reference
urljoin(current, href) ==
    IF href.scheme # ""
    THEN MkUrl(href.scheme, href.netloc, href.path, href.query, href.fragment)
    ELSE IF href.netloc # <<>>
    THEN MkUrl(current.scheme, href.netloc, href.path, href.query,
               href.fragment)
    ELSE MkUrl(current.scheme, current.netloc, href.path, href.query,
               href.fragment)

\* urljoin or _normalize_url raises on the href: urlparse does not accept
\* it
HrefRaises(href) == UrlParseRaises(href)

\* The loop over the anchors inside the one try block of _extract_links:
\* an href that raises ends the loop, and the links appended so far are
\* returned
RECURSIVE _extract_links(_, _)
_extract_links(anchors, current) ==
    IF anchors = <<>> THEN <<>>
    ELSE IF SkippedHref(Head(anchors))
    THEN _extract_links(Tail(anchors), current)
    ELSE IF HrefRaises(Head(anchors))
    THEN <<>>
    ELSE <<_normalize_url(urljoin(current, Head(anchors)))>>
         \o _extract_links(Tail(anchors), current)

\* The URLs a crawl from base_url can meet
CrawlUrls ==
    {base_url} \cup {_normalize_url(urljoin(base_url, href)) :
                        href \in {h \in Hrefs : ~SkippedHref(h)}}

\* The link lists _extract_links can return on a page with URL current
\* (one per list of anchors), tabulated per page
PageLinks ==
    [current \in CrawlUrls |->
        {_extract_links(anchors, current) : anchors \in AnchorLists}]

\* What session.get does: an exception, or a response
Response(exc, status_code, is_html) ==
    [exc |-> exc, status_code |-> status_code, is_html |-> is_html,
     text |-> "html"]

Responses ==
    {Response("Timeout", 0, FALSE),
     Response("RequestException", 0, FALSE),
     Response("none", 404, TRUE),
     Response("none", 203, TRUE),
     Response("none", 200, FALSE),
     Response("none", 200, TRUE)}

\* Every 2xx status is taken for a success
_fetch_page2xx(resp) ==
    IF resp.exc # "none" THEN {}
    ELSE IF resp.status_code \notin 200..299 THEN {}
    ELSE IF ~resp.is_html THEN {}
    ELSE {resp.text}

\* _fetch_page's result for a response: {} is None, {text} the HTML text
_fetch_page(resp) ==
    IF resp.exc # "none" THEN {}
    ELSE IF resp.status_code # 200 THEN {}
    ELSE IF ~resp.is_html THEN {}
    ELSE {resp.text}

\* ------------------------------------------------------------- findings

\* A URL a callback may put into a finding that is not the page's own
StylesheetUrl == MkUrl("https", Host, <<"/", "s">>, <<>>, "")

\* The values a callback may give a finding's "url" key: {} no such key,
\* {u} the key with value u
SuppliedUrls == {{}, {StylesheetUrl}}

\* The dict a callback builds for the idx-th finding of a page.  page and
\* idx stand for the finding's content; supplied records what the callback
\* put under "url", which the dict holds only when there is one.
Finding(page, idx, supplied) ==
    IF supplied = {}
    THEN [page |-> page, idx |-> idx, supplied |-> supplied]
    ELSE [page |-> page, idx |-> idx, supplied |-> supplied,
          url |-> CHOOSE u \in supplied : TRUE]

\* The lists of dicts a callback can build for a page, in its own order
FindingLists(page) ==
    {[i \in 1..k |-> Finding(page, i, sup)] :
        k \in 0..MaxFindings, sup \in SuppliedUrls}

\* What audit_callback(current_url, html) does: it returns one dict, a list
\* of dicts, a list whose dicts are followed by an element that is no dict
\* (bad_tail), a value that is neither, or it raises.
CallbackOutcomes(page) ==
    {[kind |-> "dict", items |-> <<Finding(page, 1, sup)>>, bad_tail |-> FALSE] :
        sup \in SuppliedUrls}
    \cup {[kind |-> "list", items |-> items, bad_tail |-> bad] :
            items \in FindingLists(page), bad \in BOOLEAN}
    \cup {[kind |-> "other", items |-> <<>>, bad_tail |-> FALSE],
          [kind |-> "raise", items |-> <<>>, bad_tail |-> FALSE]}

\* result.setdefault("url", current_url)
SetUrlIfAbsent(result, current) ==
    [key \in DOMAIN result \cup {"url"} |->
        IF key = "url" /\ "url" \notin DOMAIN result THEN current
        ELSE result[key]]

\* result["url"] = current_url
SetUrl(result, current) ==
    [key \in DOMAIN result \cup {"url"} |->
        IF key = "url" THEN current ELSE result[key]]

\* The new results are put in front of the list
AuditResultsPrepend(res, outcome, current) ==
    IF outcome.kind \in {"dict", "list"}
    THEN [i \in 1..Len(outcome.items) |->
            [key \in DOMAIN outcome.items[i] \cup {"url"} |->
                IF key = "url" THEN current ELSE outcome.items[i][key]]] \o res
    ELSE res

\* The body of run's try block: the results after the callback's outcome
AuditResults(res, outcome, current) ==
    IF outcome.kind \in {"dict", "list"}
    THEN res \o [i \in 1..Len(outcome.items) |->
                    SetUrl(outcome.items[i], current)]
    ELSE res

\* Whether the try block ends in its except clause
AuditRaises(outcome) == outcome.kind = "raise" \/ outcome.bad_tail

\* The try block without its except clause: the exception ends run
AfterCallbackPropagates(outcome) ==
    IF outcome.kind = "raise" \/ outcome.bad_tail THEN "done" ELSE "links"

\* Where run goes after the try block: the except clause catches Exception
\* and run goes on to the link extraction
AfterCallback(outcome) == "links"

\* The fetch result is not tested: the callback runs on None
AfterFetchNoSkip(fetched) == "callback"

\* if html is None: continue
AfterFetch(fetched) == IF fetched = {} THEN "loop" ELSE "callback"

\* The visited test is missing
AlreadyVisitedNever(url, visited) == FALSE

\* The visited test lets the seed through
AlreadyVisitedButSeed(url, visited) == url \in visited /\ url # base_url

\* if current_url in self.visited_urls: continue
AlreadyVisited(url, visited) == url \in visited

\* The page is counted only when its fetch gave HTML
CountFetchedOnly(count, fetched) ==
    IF fetched = {} THEN count ELSE count + 1

\* pages_crawled += 1, before the fetch: the count whatever _fetch_page
\* returns
CountFetch(count, fetched) == count + 1

\* The new links are put at the front of the queue
RECURSIVE EnqueueLinksFront(_, _, _)
EnqueueLinksFront(queue, visited, links) ==
    IF links = <<>> THEN queue
    ELSE IF Head(links) \notin visited
            /\ \A i \in 1..Len(queue) : queue[i] # Head(links)
    THEN EnqueueLinksFront(<<Head(links)>> \o queue, visited, Tail(links))
    ELSE EnqueueLinksFront(queue, visited, Tail(links))

\* for link in links: if link not in visited_urls and link not in url_queue
RECURSIVE EnqueueLinks(_, _, _)
EnqueueLinks(queue, visited, links) ==
    IF links = <<>> THEN queue
    ELSE LET link == Head(links)
             InQueue == \E i \in 1..Len(queue) : queue[i] = link
         IN  IF link \notin visited /\ ~InQueue
             THEN EnqueueLinks(Append(queue, link), visited, Tail(links))
             ELSE EnqueueLinks(queue, visited, Tail(links))

\* ---------------------------------------------------------------- state

VARIABLES
    max_pages,      \* self.max_pages
    rate_limit,     \* self.rate_limit
    visited_urls,   \* self.visited_urls
    url_queue,      \* self.url_queue
    results,        \* self.results
    pages_crawled,  \* run's local pages_crawled
    current_url,    \* run's local current_url
    pc,             \* where run is: idle, loop, callback, links, sleep, done
    runs,           \* the number of calls of run so far
    fetch_log,      \* history: the _fetch_page calls of this run, in order
    owed_pause,     \* history: a fetch was made and no sleep since
    cb_raised,      \* history: the callback raised for the current page
    probe_url,      \* UrlSpec: the URL given to the functions
    probe_patterns, \* UrlSpec: self.excluded_patterns of the engine
    normalized,     \* UrlSpec: the results of _normalize_url, in order
    is_valid,       \* UrlSpec: {} or the result of _is_valid_url
    page_anchors,   \* LinkSpec: the <a href> values of the fetched page
    page_links,     \* LinkSpec: {} or the result of _extract_links
    found_value,    \* ClassifySpec: the value found in a page's CSS
    value_map,      \* ClassifySpec: VALUE_TO_VARIABLE, in insertion order
    color_delta_e,  \* ClassifySpec: tolerances['color_delta_e'], in 0.0001
    spacing_px,     \* ClassifySpec: tolerances['spacing_px']
    approved_colors,\* ClassifySpec: self.approved_colors of the plugin
    candidate,      \* ClassifySpec: <<>> or the result of
                    \* find_variable_candidate
    color_status,   \* ClassifySpec: {} or the status _evaluate_color_value
                    \* gives
    hex_input,      \* HexSpec: the hex colour given
    rgb,            \* HexSpec: {} or what hex_to_rgb did
    normalized_hex, \* HexSpec: {} or the result of _normalize_hex
    audit_type,     \* MainSpec: args.type
    palette_file,   \* MainSpec: the palette.py of the site directory
    legacy_palette, \* MainSpec: the module palettes.<palette_name>
    main_pc,        \* MainSpec: where main is
    auditors,       \* MainSpec: the names in main's auditors dict, in order
    palette_loaded, \* MainSpec: {} or the design auditor's palette_loaded
    exit_status,    \* MainSpec: {} or how main ended
    auditor_log,    \* MainSpec: per audited page, what each auditor did
    _stylesheet_cache,  \* SheetSpec: the design auditor's cache
    stylesheet_fetches, \* SheetSpec: the requests.get calls, in order
    audited_pages   \* SheetSpec: the number of pages audited

\* The fields and locals of a crawl
crawl_vars ==
    <<max_pages, rate_limit, visited_urls, url_queue, results, pages_crawled,
      current_url, pc, runs, fetch_log, owed_pause, cb_raised>>

\* The variables of UrlSpec
url_vars == <<probe_url, probe_patterns, normalized, is_valid>>

\* The variables of LinkSpec
link_vars == <<page_anchors, page_links>>

\* The variables of ClassifySpec
classify_vars ==
    <<found_value, value_map, color_delta_e, spacing_px, approved_colors,
      candidate,
      color_status>>

\* The variables of the functions called on their own
\* The variables of HexSpec
hex_vars == <<hex_input, rgb, normalized_hex>>

\* The variables of MainSpec
main_vars ==
    <<audit_type, palette_file, legacy_palette, main_pc, auditors,
      palette_loaded, exit_status, auditor_log>>

\* The variables of SheetSpec
sheet_vars == <<_stylesheet_cache, stylesheet_fetches, audited_pages>>

pure_vars ==
    <<url_vars, link_vars, classify_vars, hex_vars, main_vars, sheet_vars>>

vars == <<crawl_vars, pure_vars>>

\* No function has been called on its own
UrlIdle ==
    /\ probe_url = SeedUrl
    /\ probe_patterns = excluded_patterns
    /\ normalized = <<>>
    /\ is_valid = {}

LinkIdle ==
    /\ page_anchors = <<>>
    /\ page_links = {}

ClassifyIdle ==
    /\ found_value = <<>>
    /\ value_map = <<>>
    /\ color_delta_e = 0
    /\ spacing_px = 0
    /\ approved_colors = {}
    /\ candidate = <<>>
    /\ color_status = {}

\* No conversion has been called on its own
HexIdle ==
    /\ hex_input = <<>>
    /\ rgb = {}
    /\ normalized_hex = {}

\* main has not been called
MainIdle ==
    /\ audit_type = "all"
    /\ palette_file = "ok"
    /\ legacy_palette = "ok"
    /\ main_pc = "idle"
    /\ auditors = <<>>
    /\ palette_loaded = {}
    /\ exit_status = {}
    /\ auditor_log = <<>>

\* No design auditor has been made
SheetIdle ==
    /\ _stylesheet_cache = <<>>
    /\ stylesheet_fetches = <<>>
    /\ audited_pages = 0

\* AuditEngine.__init__
Init ==
    /\ max_pages \in 0..MaxPagesBound
    /\ rate_limit \in {0, 1}
    /\ visited_urls = {}
    /\ url_queue = <<>>
    /\ results = <<>>
    /\ pages_crawled = 0
    /\ current_url = base_url
    /\ pc = "idle"
    /\ runs = 0
    /\ fetch_log = <<>>
    /\ owed_pause = FALSE
    /\ cb_raised = FALSE
    /\ UrlIdle
    /\ LinkIdle
    /\ ClassifyIdle
    /\ HexIdle
    /\ MainIdle
    /\ SheetIdle

\* The loop condition with the budget test off by one
LoopConditionOffByOne == url_queue # <<>> /\ pages_crawled <= max_pages

\* The loop condition without the budget test
LoopConditionNoBudget == url_queue # <<>>

\* The loop ends one page before the budget is used up
LoopConditionStopsEarly == url_queue # <<>> /\ pages_crawled + 1 < max_pages

\* while self.url_queue and pages_crawled < self.max_pages
LoopCondition == url_queue # <<>> /\ pages_crawled < max_pages

\* A call of run, up to the loop
RunStart ==
    /\ pc \in {"idle", "done"}
    /\ runs < MaxRuns
    /\ runs' = runs + 1
    /\ url_queue' = Append(url_queue, base_url)
    /\ results' = <<>>
    /\ pages_crawled' = 0
    /\ fetch_log' = <<>>
    /\ cb_raised' = FALSE
    /\ pc' = "loop"
    /\ UNCHANGED <<max_pages, rate_limit, visited_urls, current_url,
                   owed_pause>>
    /\ UNCHANGED pure_vars

\* The loop condition fails: run prints the totals and returns self.results
LoopExit ==
    /\ pc = "loop"
    /\ ~LoopCondition
    /\ pc' = "done"
    /\ UNCHANGED <<max_pages, rate_limit, visited_urls, url_queue, results,
                   pages_crawled, current_url, runs, fetch_log,
                   owed_pause, cb_raised>>

\* popleft; the URL is already visited: continue
DequeueVisited ==
    /\ pc = "loop"
    /\ LoopCondition
    /\ AlreadyVisited(Head(url_queue), visited_urls)
    /\ current_url' = Head(url_queue)
    /\ url_queue' = Tail(url_queue)
    /\ UNCHANGED <<max_pages, rate_limit, visited_urls, results, pages_crawled,
                   pc, runs, fetch_log, owed_pause, cb_raised>>

\* popleft; mark visited; the URL is not valid: continue
DequeueInvalid ==
    /\ pc = "loop"
    /\ LoopCondition
    /\ ~AlreadyVisited(Head(url_queue), visited_urls)
    /\ ~_is_valid_url(Head(url_queue))
    /\ current_url' = Head(url_queue)
    /\ url_queue' = Tail(url_queue)
    /\ visited_urls' = visited_urls \cup {Head(url_queue)}
    /\ UNCHANGED <<max_pages, rate_limit, results, pages_crawled, pc,
                   runs, fetch_log, owed_pause, cb_raised>>

\* popleft; mark visited; count the page; _fetch_page answers resp
Fetch(resp) ==
    /\ pc = "loop"
    /\ LoopCondition
    /\ ~AlreadyVisited(Head(url_queue), visited_urls)
    /\ _is_valid_url(Head(url_queue))
    /\ current_url' = Head(url_queue)
    /\ url_queue' = Tail(url_queue)
    /\ visited_urls' = visited_urls \cup {Head(url_queue)}
    /\ pages_crawled' = CountFetch(pages_crawled, _fetch_page(resp))
    /\ fetch_log' = Append(fetch_log, [url |-> Head(url_queue),
                                        ok |-> _fetch_page(resp) # {}])
    /\ owed_pause' = TRUE
    /\ cb_raised' = FALSE
    /\ pc' = AfterFetch(_fetch_page(resp))
    /\ UNCHANGED <<max_pages, rate_limit, results, runs>>

\* _fetch_page returns None: continue
FetchFailed == \E resp \in Responses : _fetch_page(resp) = {} /\ Fetch(resp)

\* _fetch_page returns the page's HTML
FetchSucceeded == \E resp \in Responses : _fetch_page(resp) # {} /\ Fetch(resp)

\* The try block around audit_callback
Callback ==
    /\ pc = "callback"
    /\ \E outcome \in CallbackOutcomes(current_url) :
        /\ results' = AuditResults(results, outcome, current_url)
        /\ cb_raised' = AuditRaises(outcome)
        /\ pc' = AfterCallback(outcome)
    /\ UNCHANGED <<max_pages, rate_limit, visited_urls, url_queue,
                   pages_crawled, current_url, runs, fetch_log,
                   owed_pause>>

\* _extract_links and the loop that appends the new links
ExtractLinks ==
    /\ pc = "links"
    /\ url_queue' \in
        {EnqueueLinks(url_queue, visited_urls, links) :
            links \in PageLinks[current_url]}
    /\ pc' = IF rate_limit > 0 THEN "sleep" ELSE "loop"
    /\ UNCHANGED <<max_pages, rate_limit, visited_urls, results, pages_crawled,
                   current_url, runs, fetch_log, owed_pause, cb_raised>>

\* time.sleep(self.rate_limit)
Sleep ==
    /\ pc = "sleep"
    /\ owed_pause' = FALSE
    /\ pc' = "loop"
    /\ UNCHANGED <<max_pages, rate_limit, visited_urls, url_queue, results,
                   pages_crawled, current_url, runs, fetch_log,
                   cb_raised>>

\* One step of the loop of run
Step ==
    /\ \/ LoopExit
       \/ DequeueVisited
       \/ DequeueInvalid
       \/ FetchFailed
       \/ FetchSucceeded
       \/ Callback
       \/ ExtractLinks
       \/ Sleep
    /\ UNCHANGED pure_vars

Next == RunStart \/ Step

Spec == Init /\ [][Next]_vars

\* run is one sequential loop: once called it keeps taking its next step
\* (the fetch has a timeout, the sleep is finite)
FairSpec == Spec /\ WF_vars(Step)

\* ------------------------------------ the URL functions on their own

PathEmpty == <<>>
PathRoot == <<"/">>
PathA == <<"/", "a">>
PathASlash == <<"/", "a", "/">>
PathASlashes == <<"/", "a", "/", "/">>
PathASemiSlash == <<"/", "a", ";", "/">>
PathAParams == <<"/", "a", "/", ";", "p">>
PathAdmin == <<"/", "a", "d", "m", "i", "n">>
PathScript == <<"/", "f", ".", "J", "S">>

ProbePaths ==
    {PathEmpty, PathRoot, PathA, PathASlash, PathASlashes, PathASemiSlash,
     PathAParams, PathAdmin, PathScript}

ProbeQueries ==
    {<<>>,
     <<Param("utm_source", TRUE, "x")>>,
     <<Param("b", TRUE, "1")>>,
     <<Param("b", TRUE, "1"), Param("gclid", TRUE, "2"), Param("c", TRUE, "3")>>,
     <<Param("utm_id", TRUE, "3")>>,
     <<Param("fbclid", FALSE, "")>>}

\* A netloc urlparse does not accept
BadHost == <<"[", "e", "x">>

\* The URL strings the functions are called with
ProbeUrls ==
    {MkUrl(scheme, netloc, path, query, fragment) :
        scheme \in {"https", "http", "ftp"},
        netloc \in {Host, HostUpper, SubHost, BadHost},
        path \in ProbePaths,
        query \in ProbeQueries,
        fragment \in {"", "frag"}}

\* The excluded_patterns an engine may be constructed with: none, the
\* crawling engine's, and a list with a pattern that does not compile
ProbePatterns ==
    {<<>>, excluded_patterns, << <<"(">> >>}

\* An engine for base_url on which run is not called
NoCrawl ==
    /\ max_pages = 0
    /\ rate_limit = 0
    /\ visited_urls = {}
    /\ url_queue = <<>>
    /\ results = <<>>
    /\ pages_crawled = 0
    /\ current_url = base_url
    /\ pc = "idle"
    /\ runs = 0
    /\ fetch_log = <<>>
    /\ owed_pause = FALSE
    /\ cb_raised = FALSE

\* An engine for base_url and a URL to call its functions with
UrlInit ==
    /\ NoCrawl
    /\ LinkIdle
    /\ ClassifyIdle
    /\ HexIdle
    /\ MainIdle
    /\ SheetIdle
    /\ probe_url \in ProbeUrls
    /\ probe_patterns \in ProbePatterns
    /\ normalized = <<>>
    /\ is_valid = {}

\* _normalize_url is called on probe_url, or on its own last result
NormalizeUrl ==
    /\ Len(normalized) < MaxApplications
    /\ ~UrlParseRaises(probe_url)
    /\ normalized' =
        Append(normalized,
               _normalize_url(IF normalized = <<>> THEN probe_url
                              ELSE normalized[Len(normalized)]))
    /\ UNCHANGED <<crawl_vars, link_vars, classify_vars, hex_vars,
                   main_vars,
                   sheet_vars, probe_url,
                   probe_patterns, is_valid>>

\* _is_valid_url is called on probe_url
CheckValid ==
    /\ is_valid = {}
    /\ is_valid' = {IsValidUrl(probe_url, allowed_domain, probe_patterns)}
    /\ UNCHANGED <<crawl_vars, link_vars, classify_vars, hex_vars,
                   main_vars,
                   sheet_vars, probe_url,
                   probe_patterns, normalized>>

UrlNext == NormalizeUrl \/ CheckValid

UrlSpec == UrlInit /\ [][UrlNext]_vars

\* ------------------------------------------- _extract_links on its own

\* An href urlparse does not accept
HrefBad == Href("https", BadHost, PathA, <<>>, "")

ProbeHrefs == Hrefs \cup {HrefBad}

\* run has fetched the seed page of a first run; the page holds
\* page_anchors
LinkInit ==
    /\ max_pages \in 1..MaxPagesBound
    /\ rate_limit = 0
    /\ visited_urls = {base_url}
    /\ url_queue = <<>>
    /\ results = <<>>
    /\ pages_crawled = 1
    /\ current_url = base_url
    /\ pc = "links"
    /\ runs = 1
    /\ fetch_log = <<[url |-> base_url, ok |-> TRUE]>>
    /\ owed_pause = TRUE
    /\ cb_raised = FALSE
    /\ UrlIdle
    /\ ClassifyIdle
    /\ HexIdle
    /\ MainIdle
    /\ SheetIdle
    /\ page_anchors \in SeqsUpTo(ProbeHrefs, MaxAnchors)
    /\ page_links = {}

\* links = self._extract_links(html, current_url) and the loop that
\* appends the new links
ExtractPageLinks ==
    /\ pc = "links"
    /\ page_links' = {_extract_links(page_anchors, current_url)}
    /\ url_queue' =
        EnqueueLinks(url_queue, visited_urls,
                     _extract_links(page_anchors, current_url))
    /\ pc' = "loop"
    /\ UNCHANGED <<max_pages, rate_limit, visited_urls, results, pages_crawled,
                   current_url, runs, fetch_log, owed_pause, cb_raised,
                   url_vars, classify_vars, hex_vars, main_vars,
                   sheet_vars,
                   page_anchors>>

LinkNext == ExtractPageLinks

LinkSpec == LinkInit /\ [][LinkNext]_vars

\* ------------------------------------------- the value classifiers

\* str.upper() on the letters of a hex colour
UpperChar(c) ==
    CASE c = "a" -> "A"
      [] c = "b" -> "B"
      [] c = "c" -> "C"
      [] c = "d" -> "D"
      [] c = "e" -> "E"
      [] c = "f" -> "F"
      [] OTHER -> c

Upper(s) == [i \in 1..Len(s) |-> UpperChar(s[i])]

\* str.strip() for blanks
RECURSIVE Strip(_)
Strip(s) ==
    IF s # <<>> /\ Head(s) = " " THEN Strip(Tail(s))
    ELSE IF s # <<>> /\ s[Len(s)] = " " THEN Strip(SubSeq(s, 1, Len(s) - 1))
    ELSE s

\* str.lstrip('#')
RECURSIVE LStripHash(_)
LStripHash(s) ==
    IF s # <<>> /\ Head(s) = "#" THEN LStripHash(Tail(s)) ELSE s

HexDigits ==
    <<"0", "1", "2", "3", "4", "5", "6", "7", "8", "9",
      "a", "b", "c", "d", "e", "f">>

IsHexDigit(c) == \E i \in 1..16 : HexDigits[i] = LowerChar(c)

\* int(c, 16) of one hex digit
HexVal(c) == (CHOOSE i \in 1..16 : HexDigits[i] = LowerChar(c)) - 1

\* The digits hex_to_rgb reads: the three digits doubled, or the string
ExpandHex(hex_color) ==
    LET h == LStripHash(hex_color)
    IN  IF Len(h) = 3
        THEN <<h[1], h[1], h[2], h[2], h[3], h[3]>>
        ELSE h

\* The slice h[i:i+2], with i counted from 1
HexPair(h, i) ==
    SubSeq(h, i, IF i + 1 <= Len(h) THEN i + 1 ELSE Len(h))

\* int(pair, 16) of a slice of one or two hex digits
PairVal(pair) ==
    IF Len(pair) = 2 THEN 16 * HexVal(pair[1]) + HexVal(pair[2])
    ELSE HexVal(pair[1])

\* int(..., 16) raises ValueError in hex_to_rgb: one of the three slices is
\* empty or is no hex number
HexRaises(hex_color) ==
    LET h == ExpandHex(hex_color)
    IN  \E i \in {1, 3, 5} :
            \/ HexPair(h, i) = <<>>
            \/ \E k \in 1..Len(HexPair(h, i)) : ~IsHexDigit(HexPair(h, i)[k])

\* hex_to_rgb(hex_color) of a string it accepts
hex_to_rgb(hex_color) ==
    LET h == ExpandHex(hex_color)
    IN  <<PairVal(HexPair(h, 1)), PairVal(HexPair(h, 3)),
          PairVal(HexPair(h, 5))>>

\* DesignAuditor._normalize_hex(hex_color)
_normalize_hex(hex_color) ==
    LET hex_value == LStripHash(Strip(Lower(hex_color)))
        doubled == IF Len(hex_value) = 3
                   THEN <<hex_value[1], hex_value[1], hex_value[2],
                          hex_value[2], hex_value[3], hex_value[3]>>
                   ELSE hex_value
    IN  <<"#">> \o (IF Len(doubled) = 8 THEN SubSeq(doubled, 1, 6)
                    ELSE doubled)

\* The colours of the model, as RGB
RgbNavy == <<10, 31, 68>>
RgbNavy46 == <<10, 31, 70>>
RgbNavy48 == <<10, 31, 72>>
RgbNavy49 == <<10, 31, 73>>
RgbNavy15 == <<21, 31, 68>>
RgbWhite == <<255, 255, 255>>

\* The distance of rgb_to_lab(rgb1) and rgb_to_lab(rgb2) that delta_e
\* computes in floating point, in units of 0.0001 and rounded up, for the
\* colours of the model against the three reference colours
LabDistance ==
    (<<RgbNavy, RgbNavy>> :> 0) @@ (<<RgbNavy46, RgbNavy>> :> 14634)
    @@ (<<RgbNavy48, RgbNavy>> :> 29177) @@ (<<RgbNavy49, RgbNavy>> :> 36414)
    @@ (<<RgbNavy15, RgbNavy>> :> 23502) @@ (<<RgbWhite, RgbNavy>> :> 916445)
    @@ (<<RgbNavy, RgbWhite>> :> 916445) @@ (<<RgbNavy46, RgbWhite>> :> 918957)
    @@ (<<RgbNavy48, RgbWhite>> :> 921626)
    @@ (<<RgbNavy49, RgbWhite>> :> 923017)
    @@ (<<RgbNavy15, RgbWhite>> :> 909821) @@ (<<RgbWhite, RgbWhite>> :> 0)
    @@ (<<RgbNavy, RgbNavy49>> :> 36414) @@ (<<RgbNavy46, RgbNavy49>> :> 21781)
    @@ (<<RgbNavy48, RgbNavy49>> :> 7238) @@ (<<RgbNavy49, RgbNavy49>> :> 0)
    @@ (<<RgbNavy15, RgbNavy49>> :> 38263)
    @@ (<<RgbWhite, RgbNavy49>> :> 923017)

\* delta_e(color1, color2), in units of 0.0001
delta_e(color1, color2) ==
    LabDistance[<<hex_to_rgb(color1), hex_to_rgb(color2)>>]

\* round(diff, 2), in units of 0.01
Round2(diff) == (diff + 50) \div 100

\* An entry of the dict value_to_variable_map
Entry(key, variable_name) == [key |-> key, variable_name |-> variable_name]

\* normalized in value_to_variable_map
HasKey(map, key) == \E i \in 1..Len(map) : map[i].key = key

\* value_to_variable_map[key]
Lookup(map, key) ==
    map[CHOOSE i \in 1..Len(map) : map[i].key = key].variable_name

\* What find_variable_candidate returns: None, or a dict with the
\* variable_name, the match_type and, for a near colour, the delta_e
NoCandidate == [match_type |-> "None", variable_name |-> "", delta_e |-> {}]

Candidate(match_type, variable_name, diff) ==
    [match_type |-> match_type, variable_name |-> variable_name,
     delta_e |-> diff]

\* The test of one reference: known_value.startswith('#') and, unless
\* delta_e raises, diff <= tolerances['color_delta_e']
NearColor(normalized_value, known_value, tolerance) ==
    /\ known_value # <<>> /\ Head(known_value) = "#"
    /\ ~HexRaises(normalized_value) /\ ~HexRaises(known_value)
    /\ delta_e(normalized_value, known_value) <= tolerance

\* Only the first reference of the map is compared
FirstNearOnlyFirst(map, normalized_value, tolerance) ==
    {i \in 1..Len(map) :
        i = 1 /\ NearColor(normalized_value, map[i].key, tolerance)}

\* for known_value, var_name in value_to_variable_map.items(): the first
\* reference within the tolerance, {} when there is none
FirstNear(map, normalized_value, tolerance) ==
    {i \in 1..Len(map) :
        /\ NearColor(normalized_value, map[i].key, tolerance)
        /\ \A j \in 1..(i - 1) :
            ~NearColor(normalized_value, map[j].key, tolerance)}

IsDigit(c) == c \in {"0", "1", "2", "3", "4", "5", "6", "7", "8", "9"}

\* A character of a word for the regular expression's \b
IsWordChar(c) ==
    c \in {"0", "1", "2", "3", "4", "5", "6", "7", "8", "9", "_",
           "a", "b", "c", "d", "e", "f", "p", "x",
           "A", "B", "C", "D", "E", "F"}

\* The number of digits s starts with
RECURSIVE LeadingDigits(_)
LeadingDigits(s) ==
    IF s # <<>> /\ IsDigit(Head(s)) THEN 1 + LeadingDigits(Tail(s)) ELSE 0

\* int(digits)
RECURSIVE DecimalValue(_)
DecimalValue(digits) ==
    IF digits = <<>> THEN 0
    ELSE 10 * DecimalValue(SubSeq(digits, 1, Len(digits) - 1))
         + HexVal(digits[Len(digits)])

\* PATTERNS['pixel_value'].match(s) with the pattern \b(\d+)px\b, and
\* int(match.group(1)): {} when s does not start with digits, "px" and a
\* word boundary
PixelValue(s) ==
    LET k == LeadingDigits(s)
    IN  IF /\ k >= 1
           /\ Len(s) >= k + 2
           /\ s[k + 1] = "p"
           /\ s[k + 2] = "x"
           /\ (Len(s) = k + 2 \/ ~IsWordChar(s[k + 3]))
        THEN {DecimalValue(SubSeq(s, 1, k))}
        ELSE {}

\* abs(found_px - known_px) <= tolerances['spacing_px'] for a reference
\* that is a pixel value
NearPixel(found_px, known_value, spacing) ==
    \E known_px \in PixelValue(known_value) :
        /\ found_px - known_px <= spacing
        /\ known_px - found_px <= spacing

\* The near match on a pixel value, with found_px - known_px
PixelCandidate(variable_name, difference) ==
    [match_type |-> "near", variable_name |-> variable_name,
     delta_e |-> {}, difference_px |-> difference]

\* The loop over the references for a found pixel value: the first
\* reference within the tolerance
FirstNearPixel(map, found_px, spacing) ==
    {i \in 1..Len(map) :
        /\ NearPixel(found_px, map[i].key, spacing)
        /\ \A j \in 1..(i - 1) : ~NearPixel(found_px, map[j].key, spacing)}

\* The last part of find_variable_candidate: the near match on a pixel
\* value, or None
PixelBranch(value, map, spacing) ==
    IF PixelValue(value) = {} THEN NoCandidate
    ELSE LET found_px == CHOOSE n \in PixelValue(value) : TRUE
             near == FirstNearPixel(map, found_px, spacing)
         IN  IF near = {} THEN NoCandidate
             ELSE LET i == CHOOSE k \in near : TRUE
                      known_px == CHOOSE n \in PixelValue(map[i].key) : TRUE
                  IN  PixelCandidate(map[i].variable_name,
                                     found_px - known_px)

\* find_variable_candidate(value, value_to_variable_map, tolerances) with
\* tolerances = {'color_delta_e': tolerance, 'spacing_px': spacing}
find_variable_candidate(value, map, tolerance, spacing) ==
    LET normalized_value == Strip(Lower(value))
        near == FirstNear(map, normalized_value, tolerance)
    IN  IF HasKey(map, normalized_value)
        THEN Candidate("exact", Lookup(map, normalized_value), {})
        ELSE IF HasKey(map, Upper(value))
        THEN Candidate("exact", Lookup(map, Upper(value)), {})
        ELSE IF normalized_value # <<>> /\ Head(normalized_value) = "#"
                /\ near # {}
        THEN LET i == CHOOSE k \in near : TRUE
             IN  Candidate("near", map[i].variable_name,
                           {Round2(delta_e(normalized_value, map[i].key))})
        ELSE PixelBranch(value, map, spacing)

\* COLOR_NEAR_MISS_THRESHOLD of config.py
COLOR_NEAR_MISS_THRESHOLD == 10

\* (r1-r2)**2 + (g1-g2)**2 + (b1-b2)**2, the square of the distance
\* _find_nearest_color computes
RgbDistanceSquared(rgb1, rgb2) ==
    (rgb1[1] - rgb2[1]) * (rgb1[1] - rgb2[1])
    + (rgb1[2] - rgb2[2]) * (rgb1[2] - rgb2[2])
    + (rgb1[3] - rgb2[3]) * (rgb1[3] - rgb2[3])

\* _find_nearest_color finds an approved colour at a distance of at most
\* COLOR_NEAR_MISS_THRESHOLD
NearMiss(hex_color, approved) ==
    /\ ~HexRaises(hex_color)
    /\ \E known \in approved :
        /\ ~HexRaises(known)
        /\ RgbDistanceSquared(hex_to_rgb(hex_color), hex_to_rgb(known))
            <= COLOR_NEAR_MISS_THRESHOLD * COLOR_NEAR_MISS_THRESHOLD

\* The status DesignAuditor._evaluate_color_value gives a colour that is
\* not "transparent"
_evaluate_color_value(color, approved) ==
    IF Lower(color) \in approved THEN "match"
    ELSE IF NearMiss(Lower(color), approved) THEN "near-miss"
    ELSE "rogue"

KeyLower == <<"#", "0", "a", "1", "f", "4", "4">>
KeyUpper == <<"#", "0", "A", "1", "F", "4", "4">>
KeyMixed == <<"#", "0", "a", "1", "F", "4", "4">>
KeyWhite == <<"#", "f", "f", "f", "f", "f", "f">>
KeyNavy49 == <<"#", "0", "a", "1", "f", "4", "9">>
Key21px == <<"2", "1", "p", "x">>
Key24px == <<"2", "4", "p", "x">>

\* The reference maps a palette may give
ValueMaps ==
    {<<>>,
     <<Entry(KeyLower, "primary")>>,
     <<Entry(KeyUpper, "primary")>>,
     <<Entry(KeyMixed, "primary")>>,
     <<Entry(KeyLower, "primary"), Entry(KeyUpper, "primary")>>,
     <<Entry(KeyWhite, "white"), Entry(KeyLower, "primary")>>,
     <<Entry(KeyLower, "primary"), Entry(KeyNavy49, "accent")>>,
     <<Entry(Key21px, "space-a"), Entry(Key24px, "space-b")>>}

\* The values an auditor may find in a page
FoundValues ==
    {KeyLower, KeyUpper, KeyMixed,
     <<" ", "#", "0", "A", "1", "F", "4", "4", " ">>,
     <<"#", "0", "a", "1", "f", "4", "6">>,
     <<"#", "0", "A", "1", "F", "4", "6">>,
     <<"#", "0", "a", "1", "f", "4", "8">>,
     <<"#", "0", "a", "1", "f", "4", "9">>,
     <<"#", "1", "5", "1", "f", "4", "4">>,
     <<"#", "f", "f", "f">>,
     <<"A", "b">>,
     Key24px,
     <<"2", "3", "p", "x">>,
     <<"2", "6", "p", "x">>,
     <<"3", "0", "p", "x">>}

\* The tolerances a palette may give for colours: 0, 3.0 (the default)
Tolerances == {0, 30000}

\* The tolerances a palette may give for pixel values: 0, 2 (the default)
SpacingTolerances == {0, 2}

\* A palette is loaded and a value is found
ClassifyInit ==
    /\ NoCrawl
    /\ UrlIdle
    /\ LinkIdle
    /\ HexIdle
    /\ MainIdle
    /\ SheetIdle
    /\ found_value \in FoundValues
    /\ value_map \in ValueMaps
    /\ color_delta_e \in Tolerances
    /\ spacing_px \in SpacingTolerances
    /\ approved_colors =
        {Lower(value_map[i].key) :
            i \in {j \in 1..Len(value_map) : Head(value_map[j].key) = "#"}}
    /\ candidate = <<>>
    /\ color_status = {}

\* find_variable_candidate is called on the found value
FindVariableCandidate ==
    /\ candidate = <<>>
    /\ candidate' =
        <<find_variable_candidate(found_value, value_map, color_delta_e,
                                  spacing_px)>>
    /\ UNCHANGED <<crawl_vars, url_vars, link_vars, hex_vars, main_vars,
                   sheet_vars,
                   found_value, value_map,
                   color_delta_e, spacing_px, approved_colors, color_status>>

\* _evaluate_color_value is called on the found value
EvaluateColorValue ==
    /\ color_status = {}
    /\ color_status' = {_evaluate_color_value(found_value, approved_colors)}
    /\ UNCHANGED <<crawl_vars, url_vars, link_vars, hex_vars, main_vars,
                   sheet_vars,
                   found_value, value_map,
                   color_delta_e, spacing_px, approved_colors, candidate>>

ClassifyNext == FindVariableCandidate \/ EvaluateColorValue

ClassifySpec == ClassifyInit /\ [][ClassifyNext]_vars

\* ------------------------------------------------------- hex conversion

\* The hex digits the given colours are written with
ProbeDigits == {"0", "a", "F"}

\* The hex colours given: three or four digits, with or without the "#"
HexInputs ==
    {prefix \o digits :
        prefix \in {<<>>, <<"#">>},
        digits \in [1..3 -> ProbeDigits] \cup [1..4 -> ProbeDigits]}

\* A hex colour is given to the conversions
HexInit ==
    /\ NoCrawl
    /\ UrlIdle
    /\ LinkIdle
    /\ ClassifyIdle
    /\ MainIdle
    /\ SheetIdle
    /\ hex_input \in HexInputs
    /\ rgb = {}
    /\ normalized_hex = {}

\* hex_to_rgb is called on the colour
HexToRgb ==
    /\ rgb = {}
    /\ rgb' = IF HexRaises(hex_input) THEN {"raise"}
              ELSE {hex_to_rgb(hex_input)}
    /\ UNCHANGED <<crawl_vars, url_vars, link_vars, classify_vars, main_vars,
                   sheet_vars, hex_input, normalized_hex>>

\* _normalize_hex is called on the colour
NormalizeHex ==
    /\ normalized_hex = {}
    /\ normalized_hex' = {_normalize_hex(hex_input)}
    /\ UNCHANGED <<crawl_vars, url_vars, link_vars, classify_vars, main_vars,
                   sheet_vars, hex_input, rgb>>

HexNext == HexToRgb \/ NormalizeHex

HexSpec == HexInit /\ [][HexNext]_vars

\* ------------------------------------------------------------------ main

\* args.type
AuditTypes == {"design", "seo", "content", "all"}

\* The audit types that make a design auditor
DesignTypes == {"design", "all"}

\* A module file: it loads, it does not exist, or loading it raises
ModuleFiles == {"ok", "missing", "broken"}

\* load_site_palette returns None for a palette.py that raises
load_site_paletteCatches(file) ==
    IF file = "ok" THEN "module" ELSE "None"

\* load_site_palette(args.site): the module, None when there is no
\* palette.py, or the exception exec_module raises
load_site_palette(file) ==
    IF file = "missing" THEN "None"
    ELSE IF file = "broken" THEN "raise"
    ELSE "module"

\* DesignAuditor._load_palette(palette_name): the palette dict, None on
\* ImportError, or another exception of the import
_load_palette(legacy) ==
    IF legacy = "missing" THEN "None"
    ELSE IF legacy = "broken" THEN "raise"
    ELSE "dict"

\* DesignAuditor.__init__: {} when it raises, else the palette_loaded of
\* the new auditor
DesignAuditorInit(palette_module, legacy) ==
    IF palette_module = "module" THEN {TRUE}
    ELSE IF _load_palette(legacy) = "raise" THEN {}
    ELSE {_load_palette(legacy) = "dict"}

\* main's auditors dict after the three try blocks
InitializedAuditors(type, palette_module, legacy) ==
    (IF type \in DesignTypes /\ DesignAuditorInit(palette_module, legacy) # {}
     THEN <<"design">> ELSE <<>>)
    \o (IF type \in {"seo", "all"} THEN <<"seo">> ELSE <<>>)
    \o (IF type \in {"content", "all"} THEN <<"content">> ELSE <<>>)

\* The URL of the n-th page the engine hands to the callback
AuditedUrl(n) ==
    IF n = 1 THEN base_url
    ELSE IF n = 2 THEN _normalize_url(urljoin(base_url, HrefA))
    ELSE _normalize_url(urljoin(base_url, HrefB))

\* What auditor.audit(url, html) can do
AuditKinds == {"raise", "dict", "list"}

\* A dict an auditor builds: type_key is {} or the "type" it gave it
AuditorFinding(auditor_name, idx, type_key) ==
    IF type_key = {}
    THEN [auditor |-> auditor_name, idx |-> idx]
    ELSE [auditor |-> auditor_name, idx |-> idx,
          type |-> CHOOSE t \in type_key : TRUE]

\* The dicts of an audit of the given kind: one dict, or a list of two of
\* which the second has a "type" of its own
AuditItems(auditor_name, kind) ==
    IF kind = "dict" THEN <<AuditorFinding(auditor_name, 1, {})>>
    ELSE IF kind = "list"
    THEN <<AuditorFinding(auditor_name, 1, {}),
           AuditorFinding(auditor_name, 2, {"custom"})>>
    ELSE <<>>

\* if "type" not in result: result["type"] = auditor_name
TagType(result, auditor_name) ==
    [key \in DOMAIN result \cup {"type"} |->
        IF key = "type" /\ "type" \notin DOMAIN result THEN auditor_name
        ELSE result[key]]

\* The loop over the auditors: all_results after the auditors names, each
\* with its try block
RECURSIVE AllResults(_, _)
AllResults(names, kinds) ==
    IF names = <<>> THEN <<>>
    ELSE LET items == AuditItems(Head(names), kinds[Head(names)])
         IN  [i \in 1..Len(items) |-> TagType(items[i], Head(names))]
             \o AllResults(Tail(names), kinds)

\* The callback without the try block around each auditor: an exception of
\* one auditor leaves the callback
combined_audit_callbackPropagates(names, kinds) ==
    IF \E i \in 1..Len(names) : kinds[names[i]] = "raise"
    THEN [kind |-> "raise", items |-> <<>>, bad_tail |-> FALSE]
    ELSE [kind |-> "list", items |-> AllResults(names, kinds),
          bad_tail |-> FALSE]

\* combined_audit_callback(url, html) as the engine sees it
combined_audit_callback(names, kinds) ==
    [kind |-> "list", items |-> AllResults(names, kinds), bad_tail |-> FALSE]

\* The names of a sequence of auditors
AuditorNames(names) == {names[i] : i \in 1..Len(names)}

\* main is called with an audit type, on a site directory
MainInit ==
    /\ max_pages = MaxAuditedPages
    /\ rate_limit = 0
    /\ visited_urls = {}
    /\ url_queue = <<>>
    /\ results = <<>>
    /\ pages_crawled = 0
    /\ current_url = base_url
    /\ pc = "idle"
    /\ runs = 0
    /\ fetch_log = <<>>
    /\ owed_pause = FALSE
    /\ cb_raised = FALSE
    /\ UrlIdle
    /\ LinkIdle
    /\ ClassifyIdle
    /\ HexIdle
    /\ SheetIdle
    /\ audit_type \in AuditTypes
    /\ palette_file \in ModuleFiles
    /\ legacy_palette \in ModuleFiles
    /\ main_pc = "start"
    /\ auditors = <<>>
    /\ palette_loaded = {}
    /\ exit_status = {}
    /\ auditor_log = <<>>

\* main: the site palette is loaded
LoadSitePalette ==
    /\ main_pc = "start"
    /\ IF audit_type \in DesignTypes /\ load_site_palette(palette_file) = "raise"
       THEN main_pc' = "done" /\ exit_status' = {"raise"}
       ELSE main_pc' = "auditors" /\ exit_status' = exit_status
    /\ UNCHANGED <<crawl_vars, url_vars, link_vars, classify_vars, hex_vars,
                   sheet_vars,
                   audit_type, palette_file, legacy_palette, auditors,
                   palette_loaded, auditor_log>>

\* main: the auditors are initialized; without any, main returns 1
InitializeAuditors ==
    /\ main_pc = "auditors"
    /\ auditors' = InitializedAuditors(audit_type,
                        load_site_palette(palette_file), legacy_palette)
    /\ palette_loaded' =
        IF audit_type \in DesignTypes
        THEN DesignAuditorInit(load_site_palette(palette_file), legacy_palette)
        ELSE {}
    /\ IF auditors' = <<>>
       THEN main_pc' = "done" /\ exit_status' = {1}
       ELSE main_pc' = "crawl" /\ exit_status' = exit_status
    /\ UNCHANGED <<crawl_vars, url_vars, link_vars, classify_vars, hex_vars,
                   sheet_vars,
                   audit_type, palette_file, legacy_palette, auditor_log>>

\* engine.run has fetched a page: it calls the combined callback and
\* stores what it returns
AuditPage ==
    /\ main_pc = "crawl"
    /\ pages_crawled < max_pages
    /\ \E kinds \in [AuditorNames(auditors) -> AuditKinds] :
        /\ results' = AuditResults(results,
                        combined_audit_callback(auditors, kinds),
                        AuditedUrl(pages_crawled + 1))
        /\ cb_raised' = AuditRaises(combined_audit_callback(auditors, kinds))
        /\ auditor_log' = Append(auditor_log, kinds)
    /\ pages_crawled' = pages_crawled + 1
    /\ current_url' = AuditedUrl(pages_crawled + 1)
    /\ UNCHANGED <<max_pages, rate_limit, visited_urls, url_queue, pc, runs,
                   fetch_log, owed_pause, url_vars, link_vars, classify_vars,
                   hex_vars, sheet_vars, audit_type, palette_file, legacy_palette,
                   main_pc, auditors, palette_loaded, exit_status>>

\* engine.run returns; main returns 1 without results and 0 after the
\* reports
FinishMain ==
    /\ main_pc = "crawl"
    /\ main_pc' = "done"
    /\ exit_status' = IF results = <<>> THEN {1} ELSE {0}
    /\ UNCHANGED <<crawl_vars, url_vars, link_vars, classify_vars, hex_vars,
                   sheet_vars,
                   audit_type, palette_file, legacy_palette, auditors,
                   palette_loaded, auditor_log>>

MainNext == LoadSitePalette \/ InitializeAuditors \/ AuditPage \/ FinishMain

MainSpec == MainInit /\ [][MainNext]_vars

\* ----------------------------------------------------------- stylesheets

\* The href values of a page's <link rel="stylesheet"> elements: two
\* spellings of the stylesheet /s, another stylesheet, and an empty href
HrefSheet == Href("", <<>>, <<"/", "s">>, <<>>, "")
HrefSheetAbsolute == Href("https", Host, <<"/", "s">>, <<>>, "")
HrefSheetOther == Href("", <<>>, <<"/", "t">>, <<>>, "")

SheetHrefs == {HrefSheet, HrefSheetAbsolute, HrefSheetOther, HrefEmpty}

\* The lists of stylesheet links of a page
SheetLinkLists == SeqsUpTo(SheetHrefs, MaxSheetLinks)

\* What requests.get(stylesheet_url, timeout=10) does: a response with
\* status 200, one with another status, or an exception
SheetResponses == {"200", "404", "raise"}

\* The cache with css_content stored under stylesheet_url
CachePut(cache, stylesheet_url, css_content) ==
    [u \in DOMAIN cache \cup {stylesheet_url} |->
        IF u = stylesheet_url THEN css_content ELSE cache[u]]

\* The loop of _extract_external_colors over the stylesheet links of the
\* page at url: the cache and the requests.get calls after it.  responses
\* gives, per link, what requests.get does if it is called for it.
RECURSIVE _extract_external_colors(_, _, _, _, _)
_extract_external_colors(hrefs, responses, url, cache, fetched) ==
    IF hrefs = <<>> THEN [cache |-> cache, fetched |-> fetched]
    ELSE LET href == Head(hrefs)
             stylesheet_url == urljoin(url, href)
             rest(c, f) ==
                _extract_external_colors(Tail(hrefs), Tail(responses), url,
                                         c, f)
         IN  IF href = HrefEmpty THEN rest(cache, fetched)
             ELSE IF stylesheet_url \in DOMAIN cache
             THEN rest(cache, fetched)
             ELSE IF Head(responses) = "200"
             THEN rest(CachePut(cache, stylesheet_url, "css"),
                       Append(fetched, [url |-> stylesheet_url, ok |-> TRUE]))
             ELSE rest(cache,
                       Append(fetched, [url |-> stylesheet_url, ok |-> FALSE]))

\* A design auditor is made for one crawl run
SheetInit ==
    /\ NoCrawl
    /\ UrlIdle
    /\ LinkIdle
    /\ ClassifyIdle
    /\ HexIdle
    /\ MainIdle
    /\ _stylesheet_cache = <<>>
    /\ stylesheet_fetches = <<>>
    /\ audited_pages = 0

\* The design auditor audits the next page of the run
ExtractExternalColors ==
    /\ audited_pages < MaxAuditedPages
    /\ \E hrefs \in SheetLinkLists :
        \E responses \in [1..Len(hrefs) -> SheetResponses] :
            LET after == _extract_external_colors(hrefs, responses,
                            AuditedUrl(audited_pages + 1), _stylesheet_cache,
                            stylesheet_fetches)
            IN  /\ _stylesheet_cache' = after.cache
                /\ stylesheet_fetches' = after.fetched
    /\ audited_pages' = audited_pages + 1
    /\ UNCHANGED <<crawl_vars, url_vars, link_vars, classify_vars, hex_vars,
                   main_vars>>

SheetNext == ExtractExternalColors

SheetSpec == SheetInit /\ [][SheetNext]_vars

\* ================================================================ claims

\* The URLs of fetch_log, in order
FetchedUrls == [i \in 1..Len(fetch_log) |-> fetch_log[i].url]

\* A URL of the queue that a further iteration would fetch
Fetchable(url) == url \notin visited_urls /\ _is_valid_url(url)

\* C1: one call of run passes at most max_pages URLs to _fetch_page,
\* however many URLs are in the queue or are added to it.
C1_FetchesWithinBudget == Len(fetch_log) <= max_pages

\* C1's case: run has returned with the budget used up while the queue
\* still holds a URL it would have fetched.
C1_Witness ==
    /\ pc = "done"
    /\ max_pages > 0
    /\ Len(fetch_log) = max_pages
    /\ \E i \in 1..Len(url_queue) : Fetchable(url_queue[i])

\* The number of times url occurs in queue
Occurrences(queue, url) ==
    Cardinality({i \in 1..Len(queue) : queue[i] = url})

\* C2: at every point a URL occurs at most once in url_queue, and a URL
\* that is in visited_urls is never appended to url_queue again.
C2_QueuedOnceNeverRequeued ==
    /\ [](\A i, j \in 1..Len(url_queue) :
            url_queue[i] = url_queue[j] => i = j)
    /\ [][\A url \in visited_urls :
            Occurrences(url_queue', url) <= Occurrences(url_queue, url)]_vars

\* C3: when audit_callback raises for a fetched page, run goes on to the
\* link extraction of that page with the frontier untouched, the page's
\* links are enqueued and the loop goes on; run still ends only when its
\* loop condition fails.
C3_CallbackFailureIsolated ==
    /\ [][(pc = "callback" /\ cb_raised') =>
            (pc' = "links" /\ url_queue' = url_queue
             /\ visited_urls' = visited_urls)]_vars
    /\ [][(pc = "links" /\ cb_raised) =>
            (/\ pc' \in {"sleep", "loop"}
             /\ \E links \in PageLinks[current_url] :
                    url_queue' = EnqueueLinks(url_queue, visited_urls, links))]_vars
    /\ []((pc = "done" /\ cb_raised) =>
            (url_queue = <<>> \/ pages_crawled >= max_pages))

\* C3's case: the callback raised for the current page, and the page's
\* links are in the queue for the loop to go on with.
C3_Witness ==
    /\ cb_raised
    /\ pc = "loop"
    /\ pages_crawled < max_pages
    /\ \E i \in 1..Len(url_queue) :
        url_queue[i] # base_url /\ Fetchable(url_queue[i])

\* C4: when _fetch_page fails for a URL the callback is not invoked, no
\* finding is added and no link is enqueued for it, and the loop goes on
\* with the rest of the queue; every finding comes from a page whose fetch
\* succeeded.
C4_FailedFetchSkipped ==
    /\ [][(Len(fetch_log') = Len(fetch_log) + 1
           /\ ~fetch_log'[Len(fetch_log')].ok) =>
            (/\ pc' = "loop"
             /\ results' = results
             /\ url_queue' = Tail(url_queue))]_vars
    /\ [](\A i \in 1..Len(results) :
            \E k \in 1..Len(fetch_log) :
                fetch_log[k].url = results[i].page /\ fetch_log[k].ok)
    /\ [](pc \in {"callback", "links"} =>
            (fetch_log # <<>> /\ fetch_log[Len(fetch_log)].ok))

\* C4's case: a fetch failed and the run went on to fetch a later URL.
C4_Witness ==
    \E i, j \in 1..Len(fetch_log) : i < j /\ ~fetch_log[i].ok

\* C5: with rate_limit > 0 the pause follows every page whose fetch was
\* attempted, whether the fetch succeeded or failed: no _fetch_page call
\* is made while the pause for the call before it is still owed.
C5_PauseBetweenFetches ==
    [][(rate_limit > 0 /\ Len(fetch_log') = Len(fetch_log) + 1) =>
            ~owed_pause]_vars

\* C6: a run that has started reaches Done; it is Done only with the queue
\* empty or the page count at max_pages, and at the head of the loop it
\* leaves the loop as soon as one of the two holds.
C6_RunTerminates ==
    /\ (pc \notin {"idle", "done"}) ~> (pc = "done")
    /\ [](pc = "done" => (url_queue = <<>> \/ pages_crawled >= max_pages))
    /\ [][(pc = "loop" /\ (url_queue = <<>> \/ pages_crawled >= max_pages)) =>
            pc' = "done"]_vars

\* C6's case: a run that fetched pages has ended with the queue empty and
\* budget left.
C6_Witness ==
    /\ pc = "done"
    /\ url_queue = <<>>
    /\ 0 < pages_crawled
    /\ pages_crawled < max_pages

\* C7: within one run no URL is passed to _fetch_page twice (a failed
\* fetch is not retried), and dequeuing a URL that is in visited_urls makes
\* no fetch and no callback and changes no result.
C7_FetchedAtMostOnce ==
    /\ [](\A i, j \in 1..Len(fetch_log) :
            fetch_log[i].url = fetch_log[j].url => i = j)
    /\ [][(pc = "loop" /\ url_queue # <<>> /\ pages_crawled < max_pages
           /\ Head(url_queue) \in visited_urls) =>
            (/\ fetch_log' = fetch_log
             /\ results' = results
             /\ pages_crawled' = pages_crawled
             /\ visited_urls' = visited_urls
             /\ pc' = "loop")]_vars

\* C7's case: a second run with budget dequeued the visited seed, fetched
\* nothing and ended with the queue empty.
C7_Witness ==
    /\ pc = "done"
    /\ runs = 2
    /\ max_pages > 0
    /\ base_url \in visited_urls
    /\ fetch_log = <<>>
    /\ url_queue = <<>>

\* C8: seeding the frontier with a URL that is already pending leaves it in
\* url_queue once.
C8_SeedQueuedOnce == Occurrences(url_queue, base_url) <= 1

\* C9 as claimed: every finding of the result list has a url field; it is
\* the page's URL when the callback gave none, and the callback's value
\* when it gave one.
C9_SuppliedUrlKept ==
    \A i \in 1..Len(results) :
        /\ "url" \in DOMAIN results[i]
        /\ results[i].supplied = {} => results[i].url = results[i].page
        /\ results[i].supplied # {} => results[i].url \in results[i].supplied

\* C9 amended: every finding of the result list has a url field equal to
\* the URL of the page it was produced from, whatever the callback put
\* there.
C9_UrlIsPage ==
    \A i \in 1..Len(results) :
        /\ "url" \in DOMAIN results[i]
        /\ results[i].url = results[i].page
        /\ \E k \in 1..Len(fetch_log) : fetch_log[k].url = results[i].url

\* C9's case: the result list holds a finding whose url the callback had
\* set to another value.
C9_Witness ==
    \E i \in 1..Len(results) :
        /\ results[i].supplied # {}
        /\ results[i].page \notin results[i].supplied

\* The place of a page in the fetch order of the run
FetchIndex(page) ==
    CHOOSE k \in 1..Len(fetch_log) : fetch_log[k].url = page

IsPrefix(s, t) == Len(s) <= Len(t) /\ SubSeq(t, 1, Len(s)) = s

\* C10: the result list is in crawl order (findings of a page fetched
\* earlier come before those of a page fetched later, findings of one page
\* in the callback's order), and while a run is under way the list only
\* grows at its end.
C10_ResultsInCrawlOrder ==
    /\ [](\A i, j \in 1..Len(results) :
            i < j =>
                \/ FetchIndex(results[i].page) < FetchIndex(results[j].page)
                \/ /\ results[i].page = results[j].page
                   /\ results[i].idx < results[j].idx)
    /\ [][pc \notin {"idle", "done"} => IsPrefix(results, results')]_vars

\* C10's case: the result list holds two findings of one page and a
\* finding of a later page.
C10_Witness ==
    \E i, j, k \in 1..Len(results) :
        /\ i < j /\ j < k
        /\ results[i].page = results[j].page
        /\ results[j].page # results[k].page

\* The last _fetch_page call of the next state returned the page's HTML
FetchedHtml == fetch_log'[Len(fetch_log')].ok

\* C18 as stated: _fetch_page returns the HTML exactly when the response has
\* a 2xx status and an HTML content type.
C18_HtmlIff2xx ==
    [][\A resp \in Responses :
        Fetch(resp) =>
            (FetchedHtml <=> /\ resp.exc = "none"
                             /\ resp.status_code \in 200..299
                             /\ resp.is_html)]_vars

\* C18: _fetch_page returns the HTML exactly when the response has status
\* 200 and an HTML content type; on any other status (another 2xx
\* included), another content type, a timeout or a transport error it
\* returns None and run goes to its next iteration.
C18_HtmlIff200 ==
    [][\A resp \in Responses :
        Fetch(resp) =>
            /\ FetchedHtml <=> /\ resp.exc = "none"
                               /\ resp.status_code = 200
                               /\ resp.is_html
            /\ ~FetchedHtml => pc' = "loop"]_vars

\* C18's case: in one run a fetch has failed and another has returned HTML.
C18_Witness ==
    /\ \E i \in 1..Len(fetch_log) : ~fetch_log[i].ok
    /\ \E i \in 1..Len(fetch_log) : fetch_log[i].ok

\* ------------------------------------------------- claims on UrlSpec

\* C11: _is_valid_url returns true only for a URL whose scheme is http or
\* https, whose host equals the allowed host (letter case aside, the whole
\* host), that matches none of the exclusion patterns and whose path ends
\* in no denylisted extension; for a URL with any other host, a subdomain
\* of the allowed host included, it returns false.
C11_ValidOnlyIfCrawlable ==
    \A r \in is_valid :
        /\ r = "True" =>
            /\ probe_url.scheme \in {"http", "https"}
            /\ Lower(probe_url.netloc) = allowed_domain
            /\ \A i \in 1..Len(probe_patterns) :
                ~Contains(probe_url.path, probe_patterns[i])
            /\ \A ext \in skip_extensions :
                ~EndsWith(Lower(urlparse(probe_url).path), ext)
        /\ Lower(probe_url.netloc) # allowed_domain => r = "False"

\* C11's case: a URL on a subdomain of the allowed host, with nothing else
\* against it, was given to _is_valid_url and came back false.
C11_Witness ==
    /\ is_valid = {"False"}
    /\ probe_url.scheme = "https"
    /\ probe_url.netloc = SubHost
    /\ probe_url.path = PathA
    /\ probe_patterns = excluded_patterns

\* C12: when a call inside _is_valid_url raises (the URL cannot be parsed,
\* an exclusion pattern does not compile), _is_valid_url returns false; its
\* caller gets true or false and never an exception.
C12_ValidationErrorIsFalse ==
    \A r \in is_valid :
        /\ r \in {"True", "False"}
        /\ IsValidUrlTry(probe_url, allowed_domain, probe_patterns) = "raise"
            => r = "False"

\* C12's case: a URL of the allowed host was checked on an engine whose
\* exclusion pattern does not compile, and the result is false.
C12_Witness ==
    /\ is_valid = {"False"}
    /\ probe_url.scheme = "https"
    /\ probe_url.netloc = Host
    /\ probe_url.path = PathA
    /\ \E i \in 1..Len(probe_patterns) : PatternRaises(probe_patterns[i])

\* C13: _normalize_url applied to its own result gives that result again.
C13_NormalizeIdempotent ==
    \A i \in 2..Len(normalized) : normalized[i] = normalized[1]

\* The spellings of a host that differ in letter case only
HostCases(netloc) ==
    {n \in {netloc, Host, HostUpper, SubHost} : Lower(n) = Lower(netloc)}

\* The paths that differ from path in one trailing slash at most
SlashCases(path) ==
    {path, path \o <<"/">>}
    \cup (IF EndsWith(path, <<"/">>)
          THEN {SubSeq(path, 1, Len(path) - 1)}
          ELSE {})

\* The queries that differ from query in tracking parameters only
TrackingCases(query) ==
    {query,
     query \o <<Param("utm_source", TRUE, "x")>>,
     <<Param("gclid", TRUE, "2")>> \o query}

\* The URLs that differ from url only in host letter case, fragment,
\* a trailing slash on the path, or tracking query parameters
Variants(url) ==
    {MkUrl(url.scheme, netloc, path, query, fragment) :
        netloc \in HostCases(url.netloc),
        path \in SlashCases(url.path),
        query \in TrackingCases(url.query),
        fragment \in {"", "frag"}}

\* C14: URLs that differ only in host letter case, fragment, a trailing
\* slash on the path or tracking query parameters have the same
\* _normalize_url result, and that result has an empty fragment, a
\* lower-case host and a path that does not end in a slash unless it is the
\* root path.
C14_VariantsNormalizeAlike ==
    normalized # <<>> =>
        /\ \A v \in Variants(probe_url) : _normalize_url(v) = normalized[1]
        /\ normalized[1].fragment = ""
        /\ normalized[1].netloc = Lower(normalized[1].netloc)
        /\ normalized[1].path # <<>>
        /\ \/ normalized[1].path = <<"/">>
           \/ ~EndsWith(normalized[1].path, <<"/">>)

\* The keys the tracking set is said to hold: the utm_ keys, fbclid, gclid
SaidTrackingKeys == tracking_params \cup {"utm_id"}

SaidKept(p) == p.key \notin SaidTrackingKeys

\* C15 as stated: the query of the result is the query of the URL without
\* the parameters whose key is a utm_ key, fbclid or gclid, in order.
C15_TrackingKeysRemoved ==
    normalized # <<>> =>
        normalized[1].query = SelectSeq(probe_url.query, SaidKept)

\* A parameter that is one of the seven listed keys followed by "="
ListedWithValue(p) ==
    /\ p.eq
    /\ p.key \in {"utm_source", "utm_medium", "utm_campaign", "utm_content",
                  "utm_term", "fbclid", "gclid"}

\* The indices of query whose parameter is not a listed key with "="
KeptIndices(query) == {i \in 1..Len(query) : ~ListedWithValue(query[i])}

\* C15: the query of the result holds exactly the parameters of the URL
\* that are not one of utm_source, utm_medium, utm_campaign, utm_content,
\* utm_term, fbclid, gclid followed by "=", in their original order; a
\* listed key without "=" and any other utm_ key stay.
C15_ListedParamsRemoved ==
    normalized # <<>> =>
        LET kept == KeptIndices(probe_url.query)
            out == normalized[1].query
        IN  /\ Len(out) = Cardinality(kept)
            /\ \A i \in kept :
                out[Cardinality({j \in kept : j <= i})] = probe_url.query[i]

\* C15's case: a query with a tracking parameter between two others was
\* normalized, and the two others are left, in order.
C15_Witness ==
    /\ normalized # <<>>
    /\ Len(probe_url.query) = 3
    /\ normalized[1].query = <<Param("b", TRUE, "1"), Param("c", TRUE, "3")>>

\* ------------------------------------------------ claims on LinkSpec

\* An href the claims say is followed: not empty, not a javascript:, mailto:
\* or tel: URL, not a fragment alone
Followed(href) ==
    /\ href # HrefEmpty
    /\ href.scheme \notin {"javascript", "mailto", "tel"}
    /\ ~(href.scheme = "" /\ href.netloc = <<>> /\ href.path = <<>>
         /\ href.query = <<>>)

WellFormed(href) == ~UrlParseRaises(href)

FollowedWellFormed(href) == Followed(href) /\ WellFormed(href)

\* The normalized absolute URLs of the hrefs, in order
Resolved(hrefs, current) ==
    [i \in 1..Len(hrefs) |-> _normalize_url(urljoin(current, hrefs[i]))]

C17_BadAnchorIsolated ==
    \A links \in page_links :
        links = Resolved(SelectSeq(page_anchors, FollowedWellFormed),
                         current_url)

\* --------------------------------------------- claims on ClassifySpec

\* The found value as the claims compare it: blanks trimmed, lower case
Trimmed == Strip(Lower(found_value))

\* A key of the reference map equals the found value, letter case aside
KeyMatches == \E i \in 1..Len(value_map) : Lower(value_map[i].key) = Trimmed

\* C19: find_variable_candidate classifies a found value as exact whenever
\* the value, trimmed and compared without regard to letter case, equals a
\* key of the reference map, whatever the letter case of that key.
C19_ExactWhateverKeyCase ==
    (candidate # <<>> /\ KeyMatches) => candidate[1].match_type = "exact"

\* The found value is a hex colour
IsHexColor == Trimmed # <<>> /\ Head(Trimmed) = "#" /\ ~HexRaises(Trimmed)

\* The reference colours of the map
ReferenceColors ==
    {value_map[i].key : i \in {j \in 1..Len(value_map) :
                                  Head(value_map[j].key) = "#"}}

\* The least LAB delta-E to a reference colour is within the tolerance
WithinDeltaE ==
    \E known \in ReferenceColors : delta_e(Trimmed, known) <= color_delta_e

\* The least RGB distance to an approved colour is within the near-miss
\* threshold
WithinRgbThreshold ==
    \E known \in approved_colors :
        RgbDistanceSquared(hex_to_rgb(Trimmed), hex_to_rgb(known))
            <= COLOR_NEAR_MISS_THRESHOLD * COLOR_NEAR_MISS_THRESHOLD

\* C20 as stated: a hex colour that matches no key is near when its least
\* LAB delta-E to the reference colours is at most color_delta_e, and
\* rogue when it is more, in find_variable_candidate and in
\* _evaluate_color_value.
C20_NearIffWithinDeltaE ==
    (IsHexColor /\ ~KeyMatches) =>
        /\ candidate # <<>> =>
            candidate[1].match_type = IF WithinDeltaE THEN "near" ELSE "None"
        /\ \A status \in color_status :
            status = IF WithinDeltaE THEN "near-miss" ELSE "rogue"

\* C20: for a hex colour it does not classify as exact,
\* find_variable_candidate returns a near match when the least LAB delta-E
\* to the reference colours is at most color_delta_e and None when it is
\* more; for a hex colour that is no approved colour _evaluate_color_value
\* gives near-miss when the least RGB distance to the approved colours is
\* at most COLOR_NEAR_MISS_THRESHOLD and rogue when it is more.
C20_NearByOwnMeasure ==
    /\ (candidate # <<>> /\ IsHexColor /\ candidate[1].match_type # "exact")
        => candidate[1].match_type = IF WithinDeltaE THEN "near" ELSE "None"
    /\ \A status \in color_status :
        (IsHexColor /\ Trimmed = Lower(found_value) /\ status # "match")
            => status = IF WithinRgbThreshold THEN "near-miss" ELSE "rogue"

\* C20's case: #0a1f46 was classified against the one reference #0a1f44
\* with tolerance 3.0 and is near, at delta-E 1.46.
C20_Witness ==
    /\ found_value = <<"#", "0", "a", "1", "f", "4", "6">>
    /\ value_map = <<Entry(KeyLower, "primary")>>
    /\ color_delta_e = 30000
    /\ candidate = <<Candidate("near", "primary", {146})>>

\* The indices of the references that are colours, and those that are
\* pixel values
ColorRefs == {i \in 1..Len(value_map) : Head(value_map[i].key) = "#"}

PixelRefs == {i \in 1..Len(value_map) : PixelValue(value_map[i].key) # {}}

\* The distance of the found pixel value to the reference i
PixelDistance(i) ==
    LET found_px == CHOOSE n \in PixelValue(found_value) : TRUE
        known_px == CHOOSE n \in PixelValue(value_map[i].key) : TRUE
    IN  IF found_px >= known_px THEN found_px - known_px
        ELSE known_px - found_px

\* The first of the references refs that is at the least distance
NearestColorRef ==
    CHOOSE i \in ColorRefs :
        /\ \A j \in ColorRefs :
            delta_e(Trimmed, value_map[i].key)
                <= delta_e(Trimmed, value_map[j].key)
        /\ \A j \in ColorRefs :
            j < i => delta_e(Trimmed, value_map[i].key)
                        < delta_e(Trimmed, value_map[j].key)

NearestPixelRef ==
    CHOOSE i \in PixelRefs :
        /\ \A j \in PixelRefs : PixelDistance(i) <= PixelDistance(j)
        /\ \A j \in PixelRefs : j < i => PixelDistance(i) < PixelDistance(j)

\* C21: a near match of find_variable_candidate names the reference at the
\* least distance from the found value, the first of them in the map's
\* order when several are at that distance, and records that distance.
C21_NearIsNearest ==
    (candidate # <<>> /\ candidate[1].match_type = "near") =>
        IF candidate[1].delta_e # {}
        THEN /\ candidate[1].variable_name
                    = value_map[NearestColorRef].variable_name
             /\ candidate[1].delta_e
                    = {Round2(delta_e(Trimmed, value_map[NearestColorRef].key))}
        ELSE /\ candidate[1].variable_name
                    = value_map[NearestPixelRef].variable_name
             /\ candidate[1].difference_px \in
                    {PixelDistance(NearestPixelRef),
                     0 - PixelDistance(NearestPixelRef)}

\* The dicts the engine stores for what the auditor auditor_name did on
\* the page-th page
StoredFindings(page, auditor_name) ==
    LET items == AuditItems(auditor_name, auditor_log[page][auditor_name])
    IN  [i \in 1..Len(items) |->
            SetUrl(TagType(items[i], auditor_name), AuditedUrl(page))]

\* Whether every element of part is an element of whole
AllIn(part, whole) ==
    \A i \in 1..Len(part) : \E j \in 1..Len(whole) : whole[j] = part[i]

\* C22: in the combined callback an exception of one auditor on a page
\* does not drop the findings of the other auditors on that page, and every
\* auditor runs on every later page: the results hold, for every audited
\* page and every auditor, the findings that auditor returned on it.
C22_AuditorFaultIsolated ==
    \A page \in 1..Len(auditor_log) :
        /\ DOMAIN auditor_log[page] = AuditorNames(auditors)
        /\ \A auditor_name \in AuditorNames(auditors) :
            AllIn(StoredFindings(page, auditor_name), results)

\* An auditor raised on the first page, between two auditors that returned
\* findings, and the auditors ran on the second page
C22_Witness ==
    /\ Len(auditor_log) = 2
    /\ auditors = <<"design", "seo", "content">>
    /\ auditor_log[1] = [a \in {"design", "seo", "content"} |->
                            IF a = "seo" THEN "raise"
                            ELSE IF a = "design" THEN "dict" ELSE "list"]
    /\ auditor_log[2]["seo"] = "list"
    /\ Len(results) = 5

\* C24 as stated: when a design audit's palette.py is missing or cannot be
\* loaded, main ends with an error and no page is ever fetched.
C24_NoCrawlWithoutPalette ==
    (audit_type \in DesignTypes /\ palette_file # "ok" /\ main_pc # "start") =>
        /\ main_pc = "done"
        /\ pages_crawled = 0
        /\ exit_status \in {{1}, {"raise"}}

\* C24: a palette.py that raises when it is loaded ends main with that
\* exception before any page is fetched, and no crawl starts without an
\* auditor; a missing palette.py is no error: the design auditor falls back
\* on the module palettes.<palette_name>, and on the empty palette with
\* palette_loaded False when that is missing too, and the crawl runs.
C24_OnlyBrokenPaletteIsFatal ==
    /\ (audit_type \in DesignTypes /\ palette_file = "broken"
            /\ main_pc # "start") =>
        /\ main_pc = "done"
        /\ pages_crawled = 0
        /\ exit_status = {"raise"}
    /\ (main_pc = "crawl" \/ pages_crawled > 0) => auditors # <<>>
    /\ (audit_type \in DesignTypes /\ palette_file = "missing"
            /\ main_pc \in {"crawl", "done"}) =>
        IF legacy_palette = "broken"
        THEN /\ palette_loaded = {}
             /\ audit_type = "design" => (pages_crawled = 0 /\ exit_status = {1})
        ELSE palette_loaded = {legacy_palette = "ok"}

\* A design audit without palette.py and without the named palette module
\* has audited a page, on the empty palette
C24_Witness ==
    /\ audit_type = "design"
    /\ palette_file = "missing"
    /\ legacy_palette = "missing"
    /\ palette_loaded = {FALSE}
    /\ pages_crawled > 0
    /\ results # <<>>

\* C23: within one crawl run the design auditor calls requests.get at most
\* once for a resolved stylesheet URL, whether that call succeeded or
\* failed.
C23_OneFetchPerStylesheet ==
    \A i, j \in 1..Len(stylesheet_fetches) :
        stylesheet_fetches[i].url = stylesheet_fetches[j].url => i = j

\* The hex colour with each digit doubled, the "#" kept
DoubledDigits(hex_color) ==
    LET h == LStripHash(hex_color)
    IN  SubSeq(hex_color, 1, Len(hex_color) - Len(h))
        \o [i \in 1..(2 * Len(h)) |-> h[(i + 1) \div 2]]

\* C25: a hex colour of three or four digits is expanded before it is
\* converted, each digit doubled: hex_to_rgb and _normalize_hex give for it
\* what they give for the colour of six or eight digits it stands for.
C25_ShorthandAsExpanded ==
    /\ rgb # {} =>
        /\ ~HexRaises(hex_input)
        /\ rgb = {hex_to_rgb(DoubledDigits(hex_input))}
    /\ normalized_hex # {} =>
        normalized_hex = {_normalize_hex(DoubledDigits(hex_input))}

\* Whether url is an element of queue
InQueue(queue, url) == \E i \in 1..Len(queue) : queue[i] = url

\* Whether every URL of queue is in visited
AllVisited(queue, visited) == \A i \in 1..Len(queue) : queue[i] \in visited

\* C26: every URL run passes to _fetch_page, the seed included, has scheme
\* http or https, is on the allowed host, matches no exclusion pattern and
\* has no denylisted extension.
C26_FetchedUrlsValid ==
    \A i \in 1..Len(fetch_log) :
        /\ fetch_log[i].url.scheme \in {"http", "https"}
        /\ Lower(fetch_log[i].url.netloc) = allowed_domain
        /\ \A k \in 1..Len(excluded_patterns) :
            ~Contains(fetch_log[i].url.path, excluded_patterns[k])
        /\ \A ext \in skip_extensions :
            ~EndsWith(Lower(urlparse(fetch_log[i].url).path), ext)

\* The seed and a link were fetched while URLs that are not valid, one on
\* another host and one with a denylisted extension, went through the queue
\* into visited_urls
C26_Witness ==
    /\ Len(fetch_log) >= 2
    /\ fetch_log[1].url = base_url
    /\ \E url \in visited_urls : Lower(url.netloc) # allowed_domain
    /\ \E url \in visited_urls, ext \in skip_extensions :
        EndsWith(Lower(urlparse(url).path), ext)

\* C27: the queue is first in, first out: a URL is taken from the front of
\* url_queue and new URLs are put at its end behind the pending ones, so
\* URLs are fetched in the order of their first enqueuing; the first fetch
\* of a fresh engine is the seed.
C27_FifoOrder ==
    /\ []((runs = 1 /\ fetch_log # <<>>) => fetch_log[1].url = base_url)
    /\ [][/\ \/ url_queue' = url_queue
             \/ url_queue # <<>> /\ url_queue' = Tail(url_queue)
             \/ IsPrefix(url_queue, url_queue')
          /\ (runs' = runs /\ fetch_log' # fetch_log) =>
                /\ url_queue # <<>>
                /\ fetch_log' = Append(fetch_log, fetch_log'[Len(fetch_log')])
                /\ fetch_log'[Len(fetch_log')].url = Head(url_queue)
                /\ url_queue' = Tail(url_queue)]_vars

\* The seed's page gave two links, they were fetched after the seed, and
\* what their pages gave is pending behind
C27_Witness ==
    /\ runs = 1
    /\ Len(fetch_log) = 3
    /\ fetch_log[1].url = base_url
    /\ fetch_log[2].ok
    /\ url_queue # <<>>

\* C28: pages_crawled is the number of _fetch_page calls of the run, a failed
\* one included, and at most the size of visited_urls; dequeuing a URL that
\* is visited or not valid leaves it unchanged.
C28_BudgetCountsFetches ==
    /\ [](pages_crawled = Len(fetch_log))
    /\ [](pages_crawled <= Cardinality(visited_urls))
    /\ [][(pc = "loop" /\ url_queue # <<>> /\ pages_crawled < max_pages
           /\ (Head(url_queue) \in visited_urls
               \/ ~_is_valid_url(Head(url_queue)))) =>
            (pages_crawled' = pages_crawled /\ fetch_log' = fetch_log)]_vars

\* A fetch failed and was counted, and a URL that is not valid was
\* dequeued without being counted
C28_Witness ==
    /\ pages_crawled = 2
    /\ ~fetch_log[2].ok
    /\ Cardinality(visited_urls) > pages_crawled
    /\ \E url \in visited_urls : ~_is_valid_url(url)

\* C29: run resets only the result list: it appends the seed to the queue
\* it finds and keeps visited_urls, which only grows; no run fetches a URL
\* that is in visited_urls; and a run whose queue holds only visited URLs
\* fetches nothing and has no results.
C29_OnlyResultsReset ==
    [][/\ visited_urls \subseteq visited_urls'
       /\ runs' # runs =>
            /\ url_queue' = Append(url_queue, base_url)
            /\ visited_urls' = visited_urls
            /\ results' = <<>>
            /\ fetch_log' = <<>>
       /\ (runs' = runs /\ fetch_log' # fetch_log) =>
            fetch_log'[Len(fetch_log')].url \notin visited_urls
       /\ (runs' = runs /\ pc = "loop"
           /\ AllVisited(url_queue, visited_urls)) =>
            /\ fetch_log' = fetch_log
            /\ results' = results
            /\ AllVisited(url_queue', visited_urls')]_vars

\* After a run that visited only the seed and emptied the queue, a second
\* run has ended without a fetch and without a result
C29_Witness ==
    /\ pc = "done"
    /\ runs = 2
    /\ max_pages > 0
    /\ visited_urls = {base_url}
    /\ url_queue = <<>>
    /\ fetch_log = <<>>
    /\ results = <<>>

\* C30: when the run of a fresh engine returns after fewer than max_pages
\* fetches, url_queue is empty and every valid URL of visited_urls has been
\* fetched exactly once; every link extracted from a fetched page is in
\* visited_urls or in url_queue from then on, so in visited_urls at that
\* return.
C30_CompleteUnderBudget ==
    /\ []((runs = 1 /\ pc = "done" /\ Len(fetch_log) < max_pages) =>
            /\ url_queue = <<>>
            /\ \A url \in visited_urls :
                _is_valid_url(url) =>
                    Cardinality({i \in 1..Len(fetch_log) :
                                    fetch_log[i].url = url}) = 1)
    /\ [][/\ pc = "links" =>
                \A links \in PageLinks[current_url] :
                    url_queue' = EnqueueLinks(url_queue, visited_urls, links) =>
                        \A i \in 1..Len(links) :
                            \/ links[i] \in visited_urls'
                            \/ InQueue(url_queue', links[i])
          /\ runs' = runs =>
                \A url \in CrawlUrls :
                    (url \in visited_urls \/ InQueue(url_queue, url)) =>
                        (url \in visited_urls' \/ InQueue(url_queue', url))]_vars

\* A fresh engine with budget left has returned after fetching the seed and
\* a link, with a URL that is not valid among the visited
C30_Witness ==
    /\ runs = 1
    /\ pc = "done"
    /\ Len(fetch_log) = 2
    /\ max_pages = 3
    /\ fetch_log[1].ok
    /\ Cardinality(visited_urls) = 3

====
